---- MODULE Spec2Model ----
(***************************************************************************)
(* Model of the Google Cloud Storage document utility:                     *)
(*   src/upload_secure_document.py         (variant "full")                *)
(*   src/upload_secure_document_simple.py  (variant "simple")              *)
(* Strings that the code takes apart (paths, blob names) are sequences of  *)
(* one-character strings, so that basename and the blob-name format are    *)
(* computed, not assumed.                                                  *)
(***************************************************************************)
EXTENDS Naturals, Sequences, FiniteSets, TLC

VARIABLES
  variant,      \* which of the two scripts the process runs
  env,          \* os.environ, restricted to the variables the code touches
  store,        \* the bucket: blob name -> content, or Absent
  res,          \* observation of the last call: arguments, exception, return value, spy log
  env0,         \* history: os.environ when the process started
  everWritten,  \* history: blob names some upload has written
  fresh,        \* history: <<org, file>> uploaded successfully, not externally changed since
  pc,           \* concurrent uploads: position of each caller inside upload_secure_document
  call,         \* concurrent uploads: arguments and injected fault of each caller
  lastDone      \* history: per blob name, content of the upload that completed last

vars == <<variant, env, store, res, env0, everWritten, fresh, pc, call, lastDone>>

----------------------------------------------------------------------------
(* Bounds and input domains *)

NumProcs == 2

Procs == 1..NumProcs

Variants == {"full", "simple"}

Orgs == {<<"a">>, <<"b">>}

\* local_path arguments: two files with the same base name, a directory, a missing path
Paths == {<<"f">>, <<"d", "/", "f">>, <<"d">>, <<"n">>}

\* file_name arguments of get_secure_document_url
FileNames == {<<"f">>, <<"d", "/", "f">>}

Unset == "<unset>"

Absent == "<absent>"

----------------------------------------------------------------------------
(* The local file system, as os.path.exists and open() see it *)

LocalDirs == {<<"d">>}

LocalFiles == {<<"f">>, <<"d", "/", "f">>}

\* mutation: the existence check is dropped
PathExistsUnchecked(path) == TRUE

PathExists(path) == path \in LocalFiles \cup LocalDirs

IsRegularFile(path) == path \in LocalFiles

FileContent(path) == IF path = <<"f">> THEN "c1" ELSE "c2"

----------------------------------------------------------------------------
(* Blob names *)

Prefix == <<"p", "r", "o", "d", "_", "o", "r", "g", "_">>

SetMax(S) == CHOOSE m \in S : \A x \in S : x <= m

SlashIdx(path) == {i \in 1..Len(path) : path[i] = "/"}

SetMin(S) == CHOOSE m \in S : \A x \in S : m <= x

\* mutation: split on "/" and keep the first part instead of the last
FirstComponent(path) ==
  IF SlashIdx(path) = {} THEN path
  ELSE SubSeq(path, 1, SetMin(SlashIdx(path)) - 1)

\* os.path.basename: what follows the last "/"
Basename(path) ==
  IF SlashIdx(path) = {} THEN path
  ELSE SubSeq(path, SetMax(SlashIdx(path)) + 1, Len(path))

\* f"prod_org_{organization_id}/{file_name}"
BlobName(org, file) == Prefix \o org \o <<"/">> \o file

\* mutation: the directory components of file_path are kept
DestinationKeepsDirs(org, path) == BlobName(org, path)

\* destination_blob_name of upload_secure_document
DestinationBlobName(org, path) == BlobName(org, Basename(path))

Keys == {BlobName(o, f) : o \in Orgs, f \in FileNames \cup {Basename(p) : p \in Paths}}

EmptyStore == [k \in Keys |-> Absent]

\* mutation: the write is skipped when the object exists (first writer wins)
UploadIfAbsent(st, key, content) ==
  IF st[key] = Absent THEN [st EXCEPT ![key] = content] ELSE st

\* mutation: the upload replaces the bucket's contents by the one object
UploadReplacingAll(st, key, content) ==
  [k \in DOMAIN st |-> IF k = key THEN content ELSE Absent]

\* blob.upload_from_file: unconditional overwrite of one object
UploadFromFile(st, key, content) == [st EXCEPT ![key] = content]

\* blob.exists()
BlobExists(st, key) == st[key] # Absent

ExpiryMinutes == 15

\* blob.generate_signed_url(version="v4", expiration=timedelta(minutes=15), method="GET")
GenerateSignedUrl(key) ==
  [kind |-> "url", key |-> key, method |-> "GET", ttl |-> ExpiryMinutes]

NoneValue == [kind |-> "None", key |-> <<>>, method |-> "", ttl |-> 0]

----------------------------------------------------------------------------
(* Failures the collaborators can report.  A fault names the first library *)
(* call of the handler that raises, and the exception it raises; the calls *)
(* before it succeed.                                                      *)

NoFault == [at |-> "none", exc |-> "none"]

StoreExcs == {"NotFound", "Forbidden", "ServiceUnavailable"}

CredFaults == {[at |-> a, exc |-> "DefaultCredentialsError"] : a \in {"default", "client"}}

StoreFaults(stages) == {[at |-> a, exc |-> x] : a \in stages, x \in StoreExcs}

UploadFaults == {NoFault} \cup CredFaults \cup StoreFaults({"bucket", "upload"})

UrlFaults == {NoFault} \cup CredFaults \cup StoreFaults({"bucket", "exists", "sign"})

----------------------------------------------------------------------------
(* Process environment *)

EnvVars == {"GCS_BUCKET_NAME", "GOOGLE_CLOUD_PROJECT", "GCE_METADATA_HOST",
            "GOOGLE_CLOUD_DISABLE_GRPC", "GOOGLE_APPLICATION_CREDENTIALS"}

\* mutation: `is None` in place of `not`, so the empty string passes
FalsyOnlyUnset(e, name) == e[name] = Unset

\* `not os.getenv(name)`
Falsy(e, name) == e[name] \in {Unset, ""}

\* the two environment checks that open every operation
ConfigError(e) ==
  IF Falsy(e, "GCS_BUCKET_NAME") THEN "GCS_BUCKET_NAME"
  ELSE IF Falsy(e, "GOOGLE_CLOUD_PROJECT") THEN "GOOGLE_CLOUD_PROJECT"
  ELSE "ok"

\* "Disable metadata server detection": the simple variant rewrites os.environ
DisableMetadata(e) ==
  [e EXCEPT !["GCE_METADATA_HOST"] = "169.254.169.255",
            !["GOOGLE_CLOUD_DISABLE_GRPC"] = "true",
            !["GOOGLE_APPLICATION_CREDENTIALS"] = Unset]

\* environment after the client-initialisation block of an operation
EnvAfterInit(v, e) == IF v = "simple" THEN DisableMetadata(e) ELSE e

----------------------------------------------------------------------------
(* Client initialisation.  full: storage.Client(project=...).              *)
(* simple: default(...) then Client(project, credentials); on any failure  *)
(* of either, Client(project) once more.                                   *)

ClientCalls(v, fault) ==
  IF v = "full" THEN <<"Client">>
  ELSE IF fault.at = "client" THEN <<"default", "Client", "Client">>
  ELSE <<"default", "Client">>

ClientFails(v, fault) == fault.at = "client"

----------------------------------------------------------------------------
(* Outcome of one handler run *)

Outcome(raised, cause, ret, printed, calls, key, e, st) ==
  [raised |-> raised, cause |-> cause, ret |-> ret, printed |-> printed,
   calls |-> calls, key |-> key, env |-> e, store |-> st]

Line(msg, key) == [msg |-> msg, key |-> key]

\* exception class that leaves the bucket-lookup try block of the full variant
BucketRaise(exc) == IF exc = "Forbidden" THEN "PermissionError" ELSE "Exception"

\* exception class that leaves the upload / signing try block
TransferRaise(v, exc) ==
  IF v = "full" /\ exc = "Forbidden" THEN "PermissionError" ELSE "Exception"

\* upload_secure_document(organization_id, file_path)
UploadSecureDocument(v, e, st, org, path, fault) ==
  LET key == DestinationBlobName(org, path)
      e2 == EnvAfterInit(v, e)
      cc == ClientCalls(v, fault)
  IN
  IF ConfigError(e) # "ok" THEN
    Outcome("ValueError", "ValueError", NoneValue, <<>>, <<>>, <<>>, e, st)
  ELSE IF ~PathExists(path) THEN
    Outcome("FileNotFoundError", "FileNotFoundError", NoneValue, <<>>, <<>>, <<>>, e, st)
  ELSE IF ClientFails(v, fault) THEN
    Outcome("PermissionError", fault.exc, NoneValue, <<>>, cc, <<>>, e2, st)
  ELSE IF fault.at = "bucket" THEN
    Outcome(IF v = "full" THEN BucketRaise(fault.exc) ELSE "Exception", fault.exc,
            NoneValue, <<>>, cc \o <<"bucket">>, <<>>, e2, st)
  ELSE IF ~IsRegularFile(path) THEN
    \* open(file_path, 'rb') raises inside the try block
    Outcome("Exception", "IsADirectoryError", NoneValue, <<>>,
            cc \o <<"bucket", "blob">>, key, e2, st)
  ELSE IF fault.at = "upload" THEN
    Outcome(TransferRaise(v, fault.exc), fault.exc, NoneValue, <<>>,
            cc \o <<"bucket", "blob", "upload_from_file">>, key, e2, st)
  ELSE
    Outcome("none", "none", NoneValue,
            <<Line("File uploaded successfully to blob", key)>>,
            cc \o <<"bucket", "blob", "upload_from_file">>, key, e2,
            UploadFromFile(st, key, FileContent(path)))

\* get_secure_document_url(organization_id, file_name)
GetSecureDocumentUrl(v, e, st, org, file, fault) ==
  LET key == BlobName(org, file)
      e2 == EnvAfterInit(v, e)
      cc == ClientCalls(v, fault)
  IN
  IF ConfigError(e) # "ok" THEN
    Outcome("ValueError", "ValueError", NoneValue, <<>>, <<>>, <<>>, e, st)
  ELSE IF ClientFails(v, fault) THEN
    Outcome("PermissionError", fault.exc, NoneValue, <<>>, cc, <<>>, e2, st)
  ELSE IF fault.at = "bucket" THEN
    Outcome(IF v = "full" THEN BucketRaise(fault.exc) ELSE "Exception", fault.exc,
            NoneValue, <<>>, cc \o <<"bucket">>, <<>>, e2, st)
  ELSE IF fault.at = "exists" THEN
    \* full: blob.exists() is outside every try block
    Outcome(IF v = "full" THEN fault.exc ELSE "Exception", fault.exc,
            NoneValue, <<>>, cc \o <<"bucket", "blob", "exists">>, key, e2, st)
  ELSE IF ~BlobExists(st, key) THEN
    \* full raises NotFound outside the try block; simple raises
    \* FileNotFoundError inside it, where `except Exception` rewraps it
    Outcome(IF v = "full" THEN "NotFound" ELSE "Exception",
            IF v = "full" THEN "NotFound" ELSE "FileNotFoundError",
            NoneValue, <<>>, cc \o <<"bucket", "blob", "exists">>, key, e2, st)
  ELSE IF fault.at = "sign" THEN
    Outcome(TransferRaise(v, fault.exc), fault.exc, NoneValue, <<>>,
            cc \o <<"bucket", "blob", "exists", "generate_signed_url">>, key, e2, st)
  ELSE
    Outcome("none", "none", GenerateSignedUrl(key), <<>>,
            cc \o <<"bucket", "blob", "exists", "generate_signed_url">>, key, e2, st)

----------------------------------------------------------------------------
(* Command-style entry points *)

\* the literals of main() in the full variant: "org-123",
\* "/path/to/your/document.pdf", "document.pdf"
MainOrg == <<"a">>

MainPath == <<"d", "/", "f">>

MainFile == <<"f">>

\* sys.argv[1:] of the simple variant
ArgLists == {<<>>, <<MainOrg>>} \cup {<<MainOrg, p>> : p \in Paths}

\* main() of the full variant: upload, then signed URL, inside one
\* try / except Exception that prints the error and returns
MainFull(e, st, f1, f2) ==
  LET up == UploadSecureDocument("full", e, st, MainOrg, MainPath, f1)
      url == GetSecureDocumentUrl("full", up.env, up.store, MainOrg, MainFile, f2)
  IN
  IF up.raised # "none" THEN
    [up EXCEPT !.raised = "none", !.printed = @ \o <<Line("Error", <<>>)>>]
      @@ [exit |-> 0]
  ELSE IF url.raised # "none" THEN
    [url EXCEPT !.raised = "none",
                !.calls = up.calls \o @,
                !.printed = up.printed \o <<Line("Document uploaded successfully", <<>>),
                                            Line("Error", <<>>)>>]
      @@ [exit |-> 0]
  ELSE
    [url EXCEPT !.calls = up.calls \o @,
                !.printed = up.printed \o <<Line("Document uploaded successfully", <<>>),
                                            Line("Secure URL generated", url.key)>>]
      @@ [exit |-> 0]

\* the __main__ block of the simple variant: an exception of the upload is
\* not caught, so the interpreter prints the traceback and exits with 1
MainSimple(e, st, argv, f1) ==
  IF Len(argv) >= 2 THEN
    LET up == UploadSecureDocument("simple", e, st, argv[1], argv[2], f1) IN
    IF up.raised # "none" THEN
      [up EXCEPT !.printed = @ \o <<Line("Traceback", <<>>)>>] @@ [exit |-> 1]
    ELSE up @@ [exit |-> 0]
  ELSE
    Outcome("none", "none", NoneValue, <<Line("Usage", <<>>)>>, <<>>, <<>>, e, st)
      @@ [exit |-> 0]

----------------------------------------------------------------------------
(* State *)

Observation(op, org, arg, fault, out, exit) ==
  [op |-> op, org |-> org, arg |-> arg, fault |-> fault,
   raised |-> out.raised, cause |-> out.cause, ret |-> out.ret,
   printed |-> out.printed, calls |-> out.calls, key |-> out.key, exit |-> exit]

NoOutcome == Outcome("none", "none", NoneValue, <<>>, <<>>, <<>>, <<>>, <<>>)

NoObservation == Observation("none", <<>>, <<>>, NoFault, NoOutcome, 0)

InitialEnvs ==
  {[n \in EnvVars |->
      CASE n = "GCS_BUCKET_NAME" -> b
        [] n = "GOOGLE_CLOUD_PROJECT" -> p
        [] n = "GOOGLE_APPLICATION_CREDENTIALS" -> c
        [] OTHER -> Unset] :
    b \in {Unset, "", "b1"}, p \in {Unset, "p1"}, c \in {Unset, "key.json"}}

ValidEnvs == {e \in InitialEnvs : ConfigError(e) = "ok"}

NoCall == [org |-> <<>>, path |-> <<>>, fault |-> NoFault, status |-> "none"]

Init ==
  /\ variant \in Variants
  /\ env \in InitialEnvs
  /\ env0 = env
  /\ store = EmptyStore
  /\ res = NoObservation
  /\ everWritten = {}
  /\ fresh = {}
  /\ pc = [p \in Procs |-> "idle"]
  /\ call = [p \in Procs |-> NoCall]
  /\ lastDone = EmptyStore

concVars == <<pc, call, lastDone>>

----------------------------------------------------------------------------
(* Sequential use: each action is one whole call *)

Put(org, path, fault) ==
  LET out == UploadSecureDocument(variant, env, store, org, path, fault) IN
  /\ res' = Observation("put", org, path, fault, out, 0)
  /\ env' = out.env
  /\ store' = out.store
  /\ everWritten' = IF out.raised = "none" THEN everWritten \cup {out.key} ELSE everWritten
  /\ fresh' = IF out.raised = "none" THEN fresh \cup {<<org, Basename(path)>>} ELSE fresh
  /\ UNCHANGED <<variant, env0, concVars>>

IssueLink(org, file, fault) ==
  LET out == GetSecureDocumentUrl(variant, env, store, org, file, fault) IN
  /\ res' = Observation("get", org, file, fault, out, 0)
  /\ env' = out.env
  /\ store' = out.store
  /\ UNCHANGED <<variant, env0, everWritten, fresh, concVars>>

RunMainFull(f1, f2) ==
  LET out == MainFull(env, store, f1, f2) IN
  /\ res' = Observation("main", MainOrg, MainPath, f1, out, out.exit)
  /\ env' = out.env
  /\ store' = out.store
  /\ everWritten' = IF store' # store THEN everWritten \cup {DestinationBlobName(MainOrg, MainPath)}
                    ELSE everWritten
  /\ fresh' = IF \E l \in 1..Len(out.printed) : out.printed[l].msg = "Document uploaded successfully"
              THEN fresh \cup {<<MainOrg, Basename(MainPath)>>} ELSE fresh
  /\ UNCHANGED <<variant, env0, concVars>>

RunMainSimple(argv, f1) ==
  LET out == MainSimple(env, store, argv, f1) IN
  /\ res' = Observation("main", IF Len(argv) >= 1 THEN argv[1] ELSE <<>>,
                        IF Len(argv) >= 2 THEN argv[2] ELSE <<>>, f1, out, out.exit)
  /\ env' = out.env
  /\ store' = out.store
  /\ everWritten' = IF out.key # <<>> /\ out.raised = "none"
                    THEN everWritten \cup {out.key} ELSE everWritten
  /\ fresh' = IF out.key # <<>> /\ out.raised = "none"
              THEN fresh \cup {<<argv[1], Basename(argv[2])>>} ELSE fresh
  /\ UNCHANGED <<variant, env0, concVars>>

\* the bucket is shared: another party deletes an object
ExternalDelete(k) ==
  /\ store[k] # Absent
  /\ store' = [store EXCEPT ![k] = Absent]
  /\ res' = [NoObservation EXCEPT !.op = "external", !.key = k]
  /\ fresh' = {of \in fresh : BlobName(of[1], of[2]) # k}
  /\ UNCHANGED <<variant, env, env0, everWritten, concVars>>

\* a failed upload ends main(), so a fault of the second call matters only
\* when the first call has none
MainFaults == {<<f1, f2>> \in UploadFaults \X UrlFaults : f1 = NoFault \/ f2 = NoFault}

Next ==
  \/ \E o \in Orgs, p \in Paths, f \in UploadFaults : Put(o, p, f)
  \/ \E o \in Orgs, n \in FileNames, f \in UrlFaults : IssueLink(o, n, f)
  \/ variant = "full" /\ \E ff \in MainFaults : RunMainFull(ff[1], ff[2])
  \/ variant = "simple" /\ \E a \in ArgLists, f \in UploadFaults : RunMainSimple(a, f)
  \/ \E k \in Keys : ExternalDelete(k)

Spec == Init /\ [][Next]_vars

----------------------------------------------------------------------------
(* Concurrent uploads: every caller runs upload_secure_document once, and  *)
(* the callers interleave between the handler's library calls.             *)

ConcFaults == {NoFault, [at |-> "client", exc |-> "DefaultCredentialsError"],
               [at |-> "upload", exc |-> "ServiceUnavailable"]}

seqVars == <<res, env0, everWritten, fresh>>

InitConc ==
  /\ Init
  /\ env \in ValidEnvs

\* the environment and local-file checks
UploadBegin(p, org, path, fault) ==
  /\ pc[p] = "idle"
  /\ call' = [call EXCEPT ![p] = [org |-> org, path |-> path, fault |-> fault,
                                  status |-> IF ConfigError(env) # "ok" THEN "ValueError"
                                             ELSE IF ~PathExists(path) THEN "FileNotFoundError"
                                             ELSE "running"]]
  /\ pc' = [pc EXCEPT ![p] = IF call'[p].status = "running" THEN "init" ELSE "done"]
  /\ UNCHANGED <<variant, env, store, lastDone, seqVars>>

\* client initialisation
UploadInit(p) ==
  /\ pc[p] = "init"
  /\ env' = EnvAfterInit(variant, env)
  /\ IF ClientFails(variant, call[p].fault)
     THEN /\ call' = [call EXCEPT ![p].status = "PermissionError"]
          /\ pc' = [pc EXCEPT ![p] = "done"]
     ELSE /\ pc' = [pc EXCEPT ![p] = "transfer"]
          /\ UNCHANGED call
  /\ UNCHANGED <<variant, store, lastDone, seqVars>>

\* bucket, blob, open and upload_from_file
UploadTransfer(p) ==
  LET c == call[p]
      key == DestinationBlobName(c.org, c.path)
  IN
  /\ pc[p] = "transfer"
  /\ pc' = [pc EXCEPT ![p] = "done"]
  /\ IF ~IsRegularFile(c.path) \/ c.fault.at \in {"bucket", "upload"}
     THEN /\ call' = [call EXCEPT ![p].status =
                        IF c.fault.at = "upload" /\ IsRegularFile(c.path)
                        THEN TransferRaise(variant, c.fault.exc) ELSE "Exception"]
          /\ UNCHANGED <<store, lastDone>>
     ELSE /\ call' = [call EXCEPT ![p].status = "ok"]
          /\ store' = UploadFromFile(store, key, FileContent(c.path))
          /\ lastDone' = [lastDone EXCEPT ![BlobName(c.org, Basename(c.path))] = FileContent(c.path)]
  /\ UNCHANGED <<variant, env, seqVars>>

NextConc ==
  \/ \E p \in Procs, o \in Orgs, pa \in Paths, f \in ConcFaults : UploadBegin(p, o, pa, f)
  \/ \E p \in Procs : UploadInit(p)
  \/ \E p \in Procs : UploadTransfer(p)

SpecConc == InitConc /\ [][NextConc]_vars

----------------------------------------------------------------------------
(* Vocabulary of the properties *)

\* error kind, in the specification's taxonomy, of a Python exception class
Kind(exc) ==
  CASE exc = "ValueError" -> "ConfigurationError"
    [] exc \in {"FileNotFoundError", "NotFound", "IsADirectoryError"} -> "NotFoundError"
    [] exc \in {"Forbidden", "PermissionError"} -> "PermissionError"
    [] exc = "DefaultCredentialsError" -> "AuthError"
    [] exc = "ServiceUnavailable" -> "TransportError"
    [] exc = "Exception" -> "GenericError"
    [] OTHER -> "none"

\* the last component of a path, stated without reference to Basename: the
\* longest suffix that holds no "/"
LastComponent(path) ==
  LET n == CHOOSE m \in 0..Len(path) :
             /\ \A i \in (Len(path) - m + 1)..Len(path) : path[i] # "/"
             /\ (m = Len(path) \/ path[Len(path) - m] = "/")
  IN SubSeq(path, Len(path) - n + 1, Len(path))

\* "prod_org_" + organization_id + "/" + basename(local_path)
ExpectedKey(org, path) == Prefix \o org \o <<"/">> \o LastComponent(path)

Count(seq, x) == Cardinality({i \in 1..Len(seq) : seq[i] = x})

IsCall(r) == r.op \in {"put", "get"}

AllDone == \A p \in Procs : pc[p] = "done"

----------------------------------------------------------------------------
(* Properties *)

\* C1: for put and issue_temporary_link, in both variants, every failure
\* reaches the caller with the error kind of the failure that caused it.
\* (Refuted: the handlers rewrap, e.g. a NotFound of the store during the
\* upload leaves as a generic Exception.)
C1_ErrorKindPreserved ==
  (IsCall(res) /\ res.cause # "none") =>
    (res.raised # "none" /\ Kind(res.raised) = Kind(res.cause))

\* C2: a signed-URL request for a blob name no upload has written, with a
\* valid configuration and no failure of the collaborators, fails with the
\* not-found kind and returns no URL, in both variants.
\* (Refuted by the simple variant, which rewraps its FileNotFoundError.)
C2_NeverWrittenIsNotFound ==
  (/\ res.op = "get"
   /\ ConfigError(env) = "ok"
   /\ res.fault = NoFault
   /\ Prefix \o res.org \o <<"/">> \o res.arg \notin everWritten) =>
    (Kind(res.raised) = "NotFoundError" /\ res.ret = NoneValue)

\* C3: after a successful put(org, local_path) with no external change of
\* the object since, issue_temporary_link(org, basename(local_path)), when
\* its collaborators report no failure, returns a signed URL for the blob
\* name prod_org_{org}/{basename}.
C3_LinkAfterPutSucceeds ==
  (res.op = "get" /\ <<res.org, res.arg>> \in fresh /\ res.fault = NoFault) =>
    /\ res.raised = "none"
    /\ res.ret.kind = "url"
    /\ res.ret.key = Prefix \o res.org \o <<"/">> \o res.arg
    /\ Count(res.calls, "exists") = 1

C3_Witness ==
  /\ res.op = "get"
  /\ res.org = <<"b">>
  /\ res.arg = <<"f">>
  /\ <<res.org, res.arg>> \in fresh
  /\ res.fault = NoFault
  /\ res.ret.kind = "url"
  /\ store[ExpectedKey(<<"b">>, <<"d", "/", "f">>)] = "c2"

\* C4: put with a local path that does not exist, under a valid
\* configuration, fails with the not-found kind, invokes nothing on the
\* store client or the credential provider, and leaves the store as it was.
C4_MissingFileNoStoreCall ==
  [][(/\ res'.op = "put"
      /\ ConfigError(env) = "ok"
      /\ res'.arg \notin LocalFiles \cup LocalDirs) =>
       (/\ res'.raised = "FileNotFoundError"
        /\ Kind(res'.raised) = "NotFoundError"
        /\ res'.calls = <<>>
        /\ store' = store)]_vars

C4_Witness ==
  /\ res.op = "put"
  /\ res.arg = <<"n">>
  /\ ConfigError(env) = "ok"
  /\ res.raised = "FileNotFoundError"
  /\ res.calls = <<>>
  /\ \E k \in Keys : store[k] # Absent

\* C5: with GCS_BUCKET_NAME unset or empty, put and issue_temporary_link
\* fail with the configuration kind before any call to the store client or
\* the credential provider, whatever the other inputs.
C5_MissingBucketFailsFirst ==
  (IsCall(res) /\ env["GCS_BUCKET_NAME"] \in {Unset, ""}) =>
    (/\ res.raised = "ValueError"
     /\ Kind(res.raised) = "ConfigurationError"
     /\ res.calls = <<>>)

C5_Witness ==
  /\ res.op = "put"
  /\ env["GCS_BUCKET_NAME"] = ""
  /\ res.arg = <<"n">>
  /\ res.raised = "ValueError"

\* C6: once all concurrent puts have finished, every blob name holds the
\* content of the put whose write to it completed last, a put that met no
\* failure was not rejected, and blob names no put targeted are untouched.
C6_LastWriterWins ==
  AllDone =>
    /\ \A k \in Keys : store[k] = lastDone[k]
    /\ \A p \in Procs :
         (call[p].fault.at \notin {"client", "upload"} /\ call[p].path \in LocalFiles)
           => call[p].status = "ok"
    /\ \A k \in Keys :
         (\A p \in Procs : call[p].status = "ok" => ExpectedKey(call[p].org, call[p].path) # k)
           => store[k] = Absent

C6_Witness ==
  /\ AllDone
  /\ call[1].status = "ok"
  /\ call[2].status = "ok"
  /\ call[1].org = call[2].org
  /\ call[1].path = <<"f">>
  /\ call[2].path = <<"d", "/", "f">>
  /\ store[ExpectedKey(call[1].org, <<"f">>)] = "c1"

\* C7: a successful put makes exactly one write, at
\* prod_org_{org}/{basename(local_path)}, replacing what was there and
\* leaving every other blob name as it was; a failed put makes at most one
\* write attempt.
C7_PutWritesExactlyOneKey ==
  [][res'.op = "put" =>
       LET key == ExpectedKey(res'.org, res'.arg)
           n == Count(res'.calls, "upload_from_file")
       IN /\ res'.raised = "none" =>
               /\ n = 1
               /\ store'[key] = FileContent(res'.arg)
               /\ \A k \in Keys \ {key} : store'[k] = store[k]
          /\ res'.raised # "none" => n <= 1]_vars

C7_Witness ==
  /\ res.op = "put"
  /\ res.raised = "none"
  /\ res.arg = <<"f">>
  /\ store[res.key] = "c1"
  /\ ExpectedKey(res.org, <<"d", "/", "f">>) \in everWritten
  /\ \E k \in Keys \ {res.key} : store[k] # Absent

\* C8: no call changes the process environment: after any sequence of
\* calls os.environ is what it was when the process started.
\* (Refuted by the simple variant, which sets GCE_METADATA_HOST and
\* GOOGLE_CLOUD_DISABLE_GRPC and removes GOOGLE_APPLICATION_CREDENTIALS.)
C8_EnvironmentUntouched == env = env0

C10_ExitStatusReflectsFailure ==
  res.op = "main" =>
    /\ res.cause = "none" => res.exit = 0
    /\ res.cause # "none" => (res.exit # 0 /\ Len(res.printed) > 0)

====
